---- MODULE Spec2Model ----
(***************************************************************************)
(* Model of the adaptive-palette composition editor (the encoding document *)
(* `changeEncodingContents` and the cells that edit it), of the palette    *)
(* JSON generator (`processPaletteLabels`) and of the gloss search form    *)
(* (`ActionSearchGloss`).                                                  *)
(*                                                                         *)
(* Conventions.  JavaScript strings are sequences of one-character strings *)
(* so that concatenation, parseInt and word matching are computed.  A      *)
(* BciAvId is a record [type, v]: type = "number" for a scalar id (v is     *)
(* the id) and type = "object" for an array (v is the sequence).           *)
(* Array elements are integers: ids are non-negative and the string        *)
(* elements "/" and ";" are written Slash and Semicolon (negative, so they *)
(* can never equal an id).  Array positions are 0-based as in the source.  *)
(***************************************************************************)
EXTENDS Integers, Sequences, FiniteSets, TLC

VARIABLES
    payloads,        \* changeEncodingContents.value.payloads
    caretPosition,   \* changeEncodingContents.value.caretPosition
    history,         \* the last operation: what ran, on what, and whether it threw
    bliss_gloss,     \* paletteJsonGenerator.ts: the gloss array, once fetched
    fetched,         \* outcome of the last fetchBlissGlossJson: "never", "ok", "failed"
    errors,          \* paletteJsonGenerator.ts: the module-level errors array
    palette_labels,  \* the configured grid of labels, the first argument
    start_row,       \* the configured start row, the second argument
    start_column,    \* the configured start column, the third argument
    call,            \* the last processPaletteLabels call and its outcome
    earlier,         \* the result the returning call before the last one returned
    search           \* ActionSearchGloss: the last submission and what it rendered

docVars == <<payloads, caretPosition, history>>
searchVars == <<search>>
configVars == <<palette_labels, start_row, start_column>>
paletteVars == <<bliss_gloss, fetched, errors, call, earlier, configVars>>

vars == <<payloads, caretPosition, history, bliss_gloss, fetched, errors,
          palette_labels, start_row, start_column, call, earlier, search>>

-----------------------------------------------------------------------------
(* Bounds *)

MaxPayloads == 2     \* symbols in the encoding document
MaxEdits == 2        \* edits of the symbols in the document (one id suffix each)
MaxRows == 2         \* rows of a palette_labels grid
MaxColumns == 2      \* labels in a row of the grid
MaxCells == 3        \* labels in the whole grid
MaxSearchLen == 3    \* characters typed in the search field

-----------------------------------------------------------------------------
(* Tokens of a BciAvId array *)

Slash == -1          \* the array element "/"
Semicolon == -2      \* the array element ";"

Num(n) == [type |-> "number", v |-> n]
Arr(s) == [type |-> "object", v |-> s]

\* Ids of the model's symbols: two plain characters and two indicators.
IdCat == 12335
IdDog == 8499
IdPlural == 9011
IdPast == 8993
INDICATOR_IDS == {IdPlural, IdPast}

Max(a, b) == IF a > b THEN a ELSE b
Min(a, b) == IF a < b THEN a ELSE b

\* Array.prototype.slice(start, end): a negative index counts from the end.
SliceIndex(len, k) == IF k < 0 THEN Max(len + k, 0) ELSE Min(k, len)
Slice(a, start, end) ==
    SubSeq(a, SliceIndex(Len(a), start) + 1, SliceIndex(Len(a), end))
SliceFrom(a, start) == Slice(a, start, Len(a))

\* 0-based positions 0 .. n-1, in order.
Positions(n) == [k \in 1..n |-> k - 1]

\* SvgUtils.findIndicators: positions of the indicator ids of an array,
\* left to right; none for a scalar id.
findIndicators(bciAvId) ==
    IF bciAvId.type = "number" THEN <<>>
    ELSE SelectSeq(Positions(Len(bciAvId.v)),
                   LAMBDA k : bciAvId.v[k + 1] \in INDICATOR_IDS)

-----------------------------------------------------------------------------
(* The cells of the palette that act on the encoding document *)

Str_CAT == <<"C", "A", "T">>
Str_DOG == <<"D", "O", "G">>
Str_PLURAL == <<"P", "L">>
Str_MANY == <<"M", "A", "N", "Y">>
Space == <<" ">>

\* Symbols an ActionBmwCodeCell can insert: a scalar id, a word with an
\* indicator, and a compound word with an indicator.
InsertableSymbols == {
    [id |-> <<"a">>, label |-> Str_CAT, bciAvId |-> Num(IdCat),
     modifierInfo |-> <<>>],
    [id |-> <<"b">>, label |-> Str_DOG,
     bciAvId |-> Arr(<<IdDog, Semicolon, IdPast>>), modifierInfo |-> <<>>],
    [id |-> <<"c">>, label |-> Str_CAT,
     bciAvId |-> Arr(<<IdCat, Slash, IdDog, Semicolon, IdPlural>>),
     modifierInfo |-> <<>>] }

\* props of the ActionPostModifierCell instances: one with a scalar
\* bciAvId, one with an array that carries an indicator.
PostModifierCells == {
    [id |-> <<"m">>, label |-> Str_MANY, bciAvId |-> Num(IdDog)],
    [id |-> <<"p">>, label |-> Str_PLURAL,
     bciAvId |-> Arr(<<IdDog, Semicolon, IdPlural>>)] }

RemoveIndicatorCell == [id |-> <<"r">>, label |-> <<"R">>, bciAvId |-> Num(0)]
ClearCell == [id |-> <<"x">>, label |-> <<"X">>, bciAvId |-> Num(0)]
NoCell == [id |-> <<>>, label |-> <<>>, bciAvId |-> Num(0)]

-----------------------------------------------------------------------------
(* History: the operation that ran last *)

Entry(name, props, threw) ==
    [op |-> name, props |-> props, thrown |-> threw,
     payloads |-> payloads, caretPosition |-> caretPosition]

Record(name, props, threw) ==
    /\ UNCHANGED paletteVars
    /\ UNCHANGED searchVars
    /\ history' = <<Entry(name, props, threw)>>

\* The edits made to the symbols now in the document: each edit has added
\* the id of its cell, one character, to the one-character id of a symbol.
RECURSIVE Edits(_)
Edits(ps) == IF ps = <<>> THEN 0 ELSE Len(Head(ps).id) - 1 + Edits(Tail(ps))

\* payloads[caretPosition] is undefined outside 0 .. length-1.
HasCaretSymbol == caretPosition >= 0 /\ caretPosition < Len(payloads)
CaretSymbol == payloads[caretPosition + 1]

-----------------------------------------------------------------------------
(* ActionRemoveIndicatorCell *)

\* caretSymbolIndicatorPosition; "throws" when payloads is not empty and
\* payloads[caretPosition] is undefined.
caretSymbolIndicatorPositionThrows ==
    Len(payloads) # 0 /\ ~HasCaretSymbol

\* Variant: the position of the last indicator instead of the first.
caretSymbolIndicatorPosition_last ==
    LET indicatorPositions ==
            IF Len(payloads) # 0 THEN findIndicators(CaretSymbol.bciAvId)
            ELSE <<>>
    IN  IF Len(indicatorPositions) = 0 THEN -1
        ELSE indicatorPositions[Len(indicatorPositions)]

caretSymbolIndicatorPosition ==
    LET indicatorPositions ==
            IF Len(payloads) # 0 THEN findIndicators(CaretSymbol.bciAvId)
            ELSE <<>>
    IN  IF Len(indicatorPositions) = 0 THEN -1 ELSE indicatorPositions[1]

\* const disabled = indicatorPosition === -1, when the component is rendered;
\* the button is enabled when rendering completes with disabled false.
removeIndicatorDisabled == caretSymbolIndicatorPosition = -1
removeIndicatorEnabled ==
    ~caretSymbolIndicatorPositionThrows /\ ~removeIndicatorDisabled

\* The new bciAvId computed by the handler from an array and an index.
removeIndicatorSlices(arr, indicatorIndex) ==
    Slice(arr, 0, indicatorIndex - 1) \o SliceFrom(arr, indicatorIndex + 1)

\* cellClicked throws a TypeError when the caret symbol is undefined
\* (`symbolToEdit.bciAvId`) or its bciAvId is a number (`.slice`).
RemoveIndicatorThrows ==
    \/ caretSymbolIndicatorPositionThrows
    \/ ~HasCaretSymbol
    \/ CaretSymbol.bciAvId.type = "number"

\* Variant: the edited symbol is written to the last slot.
setPayload_last(ps, pos, symbol) == [ps EXCEPT ![Len(ps)] = symbol]

\* payloads[caretPosition] = symbol (the array is updated in place in both
\* cellClicked handlers).
setPayload(ps, pos, symbol) == [ps EXCEPT ![pos + 1] = symbol]

RemoveIndicatorClicked ==
    /\ Edits(payloads) < MaxEdits
    /\ IF RemoveIndicatorThrows
       THEN /\ UNCHANGED <<payloads, caretPosition>>
            /\ Record("removeIndicator", RemoveIndicatorCell, TRUE)
       ELSE LET indicatorIndex == caretSymbolIndicatorPosition
                symbolToEdit == CaretSymbol
                newBciAvId ==
                    removeIndicatorSlices(symbolToEdit.bciAvId.v, indicatorIndex)
            IN  /\ payloads' = setPayload(payloads, caretPosition,
                        [id |-> symbolToEdit.id \o RemoveIndicatorCell.id,
                         label |-> symbolToEdit.label,
                         bciAvId |-> Arr(newBciAvId),
                         modifierInfo |-> symbolToEdit.modifierInfo])
                /\ caretPosition' = caretPosition
                /\ Record("removeIndicator", RemoveIndicatorCell, FALSE)

-----------------------------------------------------------------------------
(* ActionPostModifierCell *)

\* const disabled = changeEncodingContents.value.payloads.length === 0
postModifierDisabled == Len(payloads) = 0

\* "make sure it's an array": typeof x === "number" ? [x] : x
AsArray(bciAvId) == IF bciAvId.type = "number" THEN <<bciAvId.v>> ELSE bciAvId.v

\* Variant: the modifier is put in front of the symbol.
postModifierBciAvId_prepend(symbolBciAvId, modifierBciAvId) ==
    modifierBciAvId \o <<Slash>> \o symbolBciAvId

\* [ ...newBciAvId, "/", ...modifierBciAvId ]
postModifierBciAvId(symbolBciAvId, modifierBciAvId) ==
    symbolBciAvId \o <<Slash>> \o modifierBciAvId

\* Variant: the record is put in front of the older ones (unshift).
pushModifierInfo_unshift(modifierInfo, modifierBciAvId, label) ==
    <<[modifierId |-> modifierBciAvId,
       modifierGloss |-> label,
       isPrepended |-> FALSE]>> \o modifierInfo

\* symbolToEdit.modifierInfo.push({ modifierId, modifierGloss, isPrepended })
pushModifierInfo(modifierInfo, modifierBciAvId, label) ==
    Append(modifierInfo, [modifierId |-> modifierBciAvId,
                          modifierGloss |-> label,
                          isPrepended |-> FALSE])

\* `${label} ${symbolToEdit.label}`
postModifierLabel(label, symbolLabel) == label \o Space \o symbolLabel

PostModifierClicked(props) ==
    /\ Edits(payloads) < MaxEdits
    /\ IF ~HasCaretSymbol
       THEN /\ UNCHANGED <<payloads, caretPosition>>
            /\ Record("appendModifier", props, TRUE)
       ELSE LET modifierBciAvId == AsArray(props.bciAvId)
                symbolToEdit == CaretSymbol
                newBciAvId ==
                    postModifierBciAvId(AsArray(symbolToEdit.bciAvId),
                                        modifierBciAvId)
                pushed == pushModifierInfo(symbolToEdit.modifierInfo,
                                           modifierBciAvId, props.label)
            IN  /\ payloads' = setPayload(payloads, caretPosition,
                        [id |-> symbolToEdit.id \o props.id,
                         label |-> postModifierLabel(props.label,
                                                     symbolToEdit.label),
                         bciAvId |-> Arr(newBciAvId),
                         modifierInfo |-> pushed])
                /\ caretPosition' = caretPosition
                /\ Record("appendModifier", props, FALSE)

-----------------------------------------------------------------------------
(* CommandClearEncoding *)

\* Variant: the caret is left where it was.
ClearClicked_keepCaret ==
    /\ payloads' = <<>>
    /\ caretPosition' = caretPosition
    /\ Record("clear", ClearCell, FALSE)

ClearClicked ==
    /\ payloads' = <<>>
    /\ caretPosition' = -1
    /\ Record("clear", ClearCell, FALSE)

-----------------------------------------------------------------------------
(* Insertion of a symbol and caret movement *)

InsertSymbol(symbol) ==
    /\ Len(payloads) < MaxPayloads
    /\ payloads' = SubSeq(payloads, 1, caretPosition + 1) \o <<symbol>>
                   \o SubSeq(payloads, caretPosition + 2, Len(payloads))
    /\ caretPosition' = caretPosition + 1
    /\ Record("insert", NoCell, FALSE)

CaretBackward ==
    /\ caretPosition > -1
    /\ caretPosition' = caretPosition - 1
    /\ UNCHANGED payloads
    /\ Record("caret", NoCell, FALSE)

CaretForward ==
    /\ caretPosition < Len(payloads) - 1
    /\ caretPosition' = caretPosition + 1
    /\ UNCHANGED payloads
    /\ Record("caret", NoCell, FALSE)

\* A click on the remove-indicator button, which is possible when the
\* button is enabled.
RemoveIndicatorButton ==
    /\ removeIndicatorEnabled
    /\ RemoveIndicatorClicked

\* The symbols that can be inserted, an indicator on its own among them.
ResolvedSymbols ==
    InsertableSymbols \cup
        { [id |-> <<"d">>, label |-> Str_PLURAL,
           bciAvId |-> Arr(<<IdPlural>>), modifierInfo |-> <<>>] }

-----------------------------------------------------------------------------
(* paletteJsonGenerator.ts: strings, parseInt and the word-match RegExp *)

NaN == [nan |-> TRUE, n |-> 0]
Number(n) == [nan |-> FALSE, n |-> n]

DigitChars == <<"0", "1", "2", "3", "4", "5", "6", "7", "8", "9">>
IsDigit(c) == \E d \in 1..10 : DigitChars[d] = c
DigitValue(c) == (CHOOSE d \in 1..10 : DigitChars[d] = c) - 1

\* Characters matched by \w.
WordChars ==
    { "a", "b", "c", "d", "e", "f", "g", "h", "i", "j", "k", "l", "m",
      "n", "o", "p", "q", "r", "s", "t", "u", "v", "w", "x", "y", "z",
      "A", "B", "C", "D", "E", "F", "G", "H", "I", "J", "K", "L", "M",
      "N", "O", "P", "Q", "R", "S", "T", "U", "V", "W", "X", "Y", "Z",
      "0", "1", "2", "3", "4", "5", "6", "7", "8", "9", "_" }

RECURSIVE SkipWhiteSpace(_, _)
SkipWhiteSpace(s, k) ==
    IF k <= Len(s) /\ s[k] = " " THEN SkipWhiteSpace(s, k + 1) ELSE k

RECURSIVE DigitsValue(_, _, _)
DigitsValue(s, k, acc) ==
    IF k <= Len(s) /\ IsDigit(s[k])
    THEN DigitsValue(s, k + 1, 10 * acc + DigitValue(s[k]))
    ELSE acc

\* parseInt(string): leading white space is skipped, then an optional
\* sign, then the longest run of decimal digits; NaN when there is none.
parseInt(s) ==
    LET k == SkipWhiteSpace(s, 1)
        signed == k <= Len(s) /\ s[k] \in {"-", "+"}
        d == IF signed THEN k + 1 ELSE k
    IN  IF d <= Len(s) /\ IsDigit(s[d])
        THEN Number((IF signed /\ s[k] = "-" THEN -1 ELSE 1)
                        * DigitsValue(s, d, 0))
        ELSE NaN

\* \b at the gap after the k-th character (k = 0: before the first).
WordBoundary(s, k) ==
    LET left == k >= 1 /\ s[k] \in WordChars
        right == k + 1 <= Len(s) /\ s[k + 1] \in WordChars
    IN  left # right

\* One character of the label read as a pattern: "." matches any character
\* (there is no line terminator in a description), a letter, a digit or a
\* space matches itself.
PatternCharMatches(p, c) == p = "." \/ p = c

\* new RegExp("\\b" + label + "\\b").test(description): the label is the
\* pattern, unescaped.  Labels are made of letters, digits, spaces and ".",
\* so the pattern matches exactly Len(label) characters.
wordMatch(label, description) ==
    \E start \in 1..(Len(description) - Len(label) + 1) :
        /\ \A k \in 1..Len(label) :
               PatternCharMatches(label[k], description[start + k - 1])
        /\ WordBoundary(description, start - 1)
        /\ WordBoundary(description, start + Len(label) - 1)

-----------------------------------------------------------------------------
(* paletteJsonGenerator.ts: constants and the gloss *)

BLANK_CELL_LABEL == <<"B", "L", "A", "N", "K">>
palette_name == <<"No name Palette">>
type == "ActionBmwCodeCell"

\* specialEncodings is the empty object literal: it has no own key, and
\* `label in specialEncodings` holds for the names it inherits (of which
\* these are some).
specialEncodingsKeys == {}
InheritedKeys == { <<"c", "o", "n", "s", "t", "r", "u", "c", "t", "o", "r">>,
                   <<"v", "a", "l", "u", "e", "O", "f">> }
InSpecialEncodings(label) ==
    label \in specialEncodingsKeys \/ label \in InheritedKeys

NOT_FOUND_SUFFIX == <<" ", "N", "O", "T", " ", "F", "O", "U", "N", "D">>
NotFoundBciAvId ==
    Arr(<<15733, Slash, 14133, Semicolon, 9004, Slash, 25570>>)

\* bliss_gloss before any successful fetch, and after one.
Undefined == [defined |-> FALSE, entries |-> <<>>]
Gloss(entries) == [defined |-> TRUE, entries |-> entries]

\* An id of the gloss JSON is a number or a string.
NumberId(n) == [type |-> "number", v |-> n]
StringId(s) == [type |-> "string", v |-> s]

Str_cat == <<"c", "a", "t">>
Str_dog == <<"d", "o", "g">>
Str_7 == <<"7">>
Str_seven == <<"s", "e", "v", "e", "n">>
Str_the_cat_sat == <<"t", "h", "e", " ", "c", "a", "t", " ", "s", "a", "t">>
Str_category == <<"c", "a", "t", "e", "g", "o", "r", "y">>
Str_constructor == <<"c", "o", "n", "s", "t", "r", "u", "c", "t", "o", "r">>
Str_c_t == <<"c", ".", "t">>

\* What a fetch can deliver: an empty array, a gloss with ids as numbers,
\* and one with ids as strings (one of its descriptions is a name that
\* every object inherits).
FetchableGlosses == {
    <<>>,
    <<[id |-> NumberId(7), description |-> Str_seven],
      [id |-> NumberId(9), description |-> Str_category],
      [id |-> NumberId(8), description |-> Str_the_cat_sat],
      [id |-> NumberId(5), description |-> Str_cat]>>,
    <<[id |-> StringId(Str_7), description |-> Str_seven],
      [id |-> StringId(<<"3">>), description |-> Str_constructor],
      [id |-> StringId(<<"5">>), description |-> Str_cat]>> }

\* fetchBlissGlossJson: on success bliss_gloss is the parsed JSON; on a
\* failure it is logged and bliss_gloss stays what it was.  The gloss is
\* fetched once and the fetch is not retried.
FetchSucceeds(entries) ==
    /\ fetched = "never"
    /\ bliss_gloss' = Gloss(entries)
    /\ fetched' = "ok"
    /\ UNCHANGED <<errors, call, earlier, configVars>>
    /\ UNCHANGED docVars
    /\ UNCHANGED searchVars

\* Variant: the failure comes after bliss_gloss has been assigned.
FetchFails_glossAssigned ==
    /\ fetched = "never"
    /\ fetched' = "failed"
    /\ \E entries \in FetchableGlosses : bliss_gloss' = Gloss(entries)
    /\ UNCHANGED <<errors, call, earlier, configVars>>
    /\ UNCHANGED docVars
    /\ UNCHANGED searchVars

FetchFails ==
    /\ fetched = "never"
    /\ fetched' = "failed"
    /\ UNCHANGED <<bliss_gloss, errors, call, earlier, configVars>>
    /\ UNCHANGED docVars
    /\ UNCHANGED searchVars

-----------------------------------------------------------------------------
(* paletteJsonGenerator.ts: resolution of one label *)

\* A function result: a value, or an error thrown.
Returns(value) == [threw |-> FALSE, value |-> value, message |-> <<>>]
Throws(message) == [threw |-> TRUE, value |-> <<>>, message |-> message]

\* The message of the TypeError raised by the engine.
TypeErrorMessage == <<"TypeError">>

\* parseInt(gloss.id): of a number, the number itself.
parseIntId(id) == IF id.type = "number" THEN Number(id.v) ELSE parseInt(id.v)

\* findBciAvId(label, blissGlosses): the value is [inherited, matches].
findBciAvId(label, blissGlosses) ==
    IF InSpecialEncodings(label)
    THEN Returns([inherited |-> TRUE, matches |-> <<>>])
    ELSE IF ~blissGlosses.defined
    THEN Throws(TypeErrorMessage)
    ELSE LET hit(gloss) == \/ label = gloss.description
                           \/ wordMatch(label, gloss.description)
             found == SelectSeq(blissGlosses.entries, hit)
             matches == [k \in 1..Len(found) |->
                            [bciAvId |-> parseIntId(found[k].id),
                             label |-> found[k].description]]
         IN  IF Len(matches) = 0
             THEN Throws(<<"BciAvId not found for label: ">> \o label)
             ELSE Returns([inherited |-> FALSE, matches |-> matches])

\* entry.id === bciAvId, where bciAvId is the label, a string.
StrictEquals(id, bciAvId) == id.type = "string" /\ id.v = bciAvId

\* findByBciAvId(bciAvId, blissGlosses): the first entry with that id.
findByBciAvId(bciAvId, blissGlosses) ==
    IF ~blissGlosses.defined
    THEN Throws(TypeErrorMessage)
    ELSE LET found == SelectSeq(blissGlosses.entries,
                                LAMBDA entry : StrictEquals(entry.id, bciAvId))
         IN  IF Len(found) = 0
             THEN Throws(<<"BciAvId not found for BCI AV ID: ">> \o bciAvId)
             ELSE Returns(found[1])

\* The bciAvId of a cell for the number parseInt gave.
CellBciAvId(number) == IF number.nan THEN [type |-> "NaN", v |-> 0]
                       ELSE Num(number.n)

\* The body of the try statement: the value is the cell, with the entry
\* for matchByLabel if there is one.
tryResolve(cell, label, blissGlosses) ==
    LET parsed == parseInt(label)
    IN  IF ~parsed.nan
        THEN LET glossEntry == findByBciAvId(label, blissGlosses)
             IN  IF glossEntry.threw THEN Throws(glossEntry.message)
                 ELSE Returns(
                     [cell |-> [cell EXCEPT
                                   !.options.bciAvId = CellBciAvId(parsed),
                                   !.options.label = glossEntry.value.description],
                      labelMatch |-> <<>>])
        ELSE LET matches == findBciAvId(label, blissGlosses)
             IN  IF matches.threw THEN Throws(matches.message)
                 ELSE IF matches.value.inherited
                 THEN Throws(TypeErrorMessage)
                 ELSE Returns(
                     [cell |-> [cell EXCEPT !.options.bciAvId =
                                   CellBciAvId(matches.value.matches[1].bciAvId)],
                      labelMatch |-> <<[label |-> label,
                                        matches |-> matches.value.matches]>>])

\* Variant: the label is marked and the bciAvId is left as it was.
notFoundCell_labelOnly(cell) ==
    [cell EXCEPT !.options.label = @ \o NOT_FOUND_SUFFIX]

\* catch (error) { ... }: the cell is marked as not found.
notFoundCell(cell) ==
    [cell EXCEPT !.options.label = @ \o NOT_FOUND_SUFFIX,
                 !.options.bciAvId = NotFoundBciAvId]

\* Variant: only the errors the generator throws itself are caught.
catches_ownErrors(outcome) == outcome.message # TypeErrorMessage

\* The catch clause has no condition: it catches whatever is thrown.
catches(outcome) == TRUE

-----------------------------------------------------------------------------
(* paletteJsonGenerator.ts: processPaletteLabels *)

\* The state of the two nested forEach loops: the cells of final_json in
\* insertion order (each with the label its key starts with), matchByLabel,
\* the errors array, the number of labels visited, and whether an error
\* escaped the function.
StartOfCall ==
    [cells |-> <<>>, matchByLabel |-> <<>>, errors |-> <<>>,
     visited |-> 0, thrown |-> FALSE]

\* One call of the inner forEach callback.  The key `${label}-${uuidv4()}`
\* is new each time, so every cell adds an entry to final_json.cells.
processLabel(acc, label, rowIndex, colIndex) ==
    LET current_row == start_row + rowIndex
        current_column == start_column + colIndex
        cell == [type |-> type,
                 options |-> [label |-> label,
                              bciAvId |-> [type |-> "undefined", v |-> 0],
                              rowStart |-> current_row,
                              rowSpan |-> 1,
                              columnStart |-> current_column,
                              columnSpan |-> 1]]
        outcome == tryResolve(cell, label, bliss_gloss)
        seen == [acc EXCEPT !.visited = @ + 1]
    IN  IF label = BLANK_CELL_LABEL THEN seen
        ELSE IF ~outcome.threw
        THEN [seen EXCEPT
                 !.cells = Append(@, [key |-> label, cell |-> outcome.value.cell]),
                 !.matchByLabel = @ \o outcome.value.labelMatch]
        ELSE IF catches(outcome)
        THEN [seen EXCEPT
                 !.errors = Append(@, outcome.message),
                 !.cells = Append(@, [key |-> label, cell |-> notFoundCell(cell)])]
        ELSE [acc EXCEPT !.thrown = TRUE]

\* row.forEach((label, colIndex) => ...), from colIndex on.
RECURSIVE forEachLabel(_, _, _, _)

\* Variant: the blank labels are dropped from the row before it is walked,
\* so a label's column index does not count the blanks before it.
forEachLabel_blanksDropped(acc, row, rowIndex, colIndex) ==
    IF acc.thrown \/ colIndex >= Len(row) THEN acc
    ELSE LET blanks == Len(SelectSeq(SubSeq(row, 1, colIndex),
                                     LAMBDA label : label = BLANK_CELL_LABEL))
         IN  forEachLabel(processLabel(acc, row[colIndex + 1], rowIndex,
                                       colIndex - blanks),
                          row, rowIndex, colIndex + 1)

forEachLabel(acc, row, rowIndex, colIndex) ==
    IF acc.thrown \/ colIndex >= Len(row) THEN acc
    ELSE forEachLabel(processLabel(acc, row[colIndex + 1], rowIndex, colIndex),
                      row, rowIndex, colIndex + 1)

\* palette_labels.forEach((row, rowIndex) => ...), from rowIndex on.
RECURSIVE forEachRow(_, _)
forEachRow(acc, rowIndex) ==
    IF acc.thrown \/ rowIndex >= Len(palette_labels) THEN acc
    ELSE forEachRow(forEachLabel(acc, palette_labels[rowIndex + 1], rowIndex, 0),
                    rowIndex + 1)

\* The labels, offsets and grids of the configurations.
Labels == {BLANK_CELL_LABEL, Str_cat, Str_dog, Str_7, Str_constructor, Str_c_t}
Starts == {<<2, 1>>, <<0, 3>>}
SeqsUpTo(S, n) == UNION {[1..k -> S] : k \in 0..n}
RECURSIVE Sum(_)
Sum(lengths) == IF lengths = <<>> THEN 0 ELSE Head(lengths) + Sum(Tail(lengths))
RECURSIVE CellCount(_)
CellCount(grid) ==
    IF grid = <<>> THEN 0 ELSE Len(Head(grid)) + CellCount(Tail(grid))
\* The row lengths of a grid: up to MaxRows rows of 1 .. MaxColumns labels.
Shapes == {lengths \in SeqsUpTo(1..MaxColumns, MaxRows) : Sum(lengths) <= MaxCells}
\* The grid of the given row lengths that holds the labels in row-major order.
Rows(labels, lengths) ==
    [r \in 1..Len(lengths) |->
        SubSeq(labels, Sum(SubSeq(lengths, 1, r - 1)) + 1,
                       Sum(SubSeq(lengths, 1, r)))]
Grids == UNION {{Rows(labels, lengths) : labels \in [1..Sum(lengths) -> Labels]} :
                lengths \in Shapes}

NoCall == [bliss_gloss |-> Undefined, returned |-> FALSE, thrown |-> FALSE,
           visited |-> 0,
           paletteJson |-> [name |-> palette_name, cells |-> <<>>],
           matches |-> <<>>]

\* const errors = []: the one array of the module, which every call empties
\* with `errors.length = 0` and fills again.
ErrorsArray == "errors"

\* What an array holds now.
ContentsOf(array) == IF array = ErrorsArray THEN errors ELSE <<>>

\* return { ..., errors: errors }: the result holds the module-level array
\* itself, not a copy; `pushed` records what the call had pushed to it when
\* it returned.
ResultOfCall == [returned |-> TRUE, errors |-> ErrorsArray, pushed |-> errors]
NoResult == [returned |-> FALSE, errors |-> ErrorsArray, pushed |-> <<>>]

\* processPaletteLabels(palette_labels, start_row, start_column).  The
\* errors of the result are the module-level array itself.
processPaletteLabels ==
    \E end \in {forEachRow(StartOfCall, 0)} :
        /\ errors' = end.errors
        /\ earlier' = IF call.returned THEN ResultOfCall ELSE earlier
        /\ call' = [bliss_gloss |-> bliss_gloss,
                    returned |-> ~end.thrown,
                    thrown |-> end.thrown,
                    visited |-> end.visited,
                    paletteJson |-> [name |-> palette_name,
                                     cells |-> end.cells],
                    matches |-> end.matchByLabel]
        /\ UNCHANGED <<bliss_gloss, fetched, configVars>>
        /\ UNCHANGED docVars
        /\ UNCHANGED searchVars

-----------------------------------------------------------------------------
(* ActionSearchGloss *)

\* String.prototype.trim, for a string whose only white space is " ".
RECURSIVE trimStart(_)
trimStart(s) == IF s # <<>> /\ Head(s) = " " THEN trimStart(Tail(s)) ELSE s
RECURSIVE trimEnd(_)
trimEnd(s) ==
    IF s # <<>> /\ s[Len(s)] = " " THEN trimEnd(SubSeq(s, 1, Len(s) - 1))
    ELSE s
trim(s) == trimEnd(trimStart(s))

\* The position after the run of decimal digits that starts at position k.
RECURSIVE DigitsEnd(_, _)
DigitsEnd(s, k) ==
    IF k <= Len(s) /\ IsDigit(s[k]) THEN DigitsEnd(s, k + 1) ELSE k

\* The number n * 10^e, with n not a multiple of 10 unless it is 0.
RECURSIVE Decimal(_, _)
Decimal(n, e) ==
    IF n = 0 THEN [nan |-> FALSE, n |-> 0, e |-> 0]
    ELSE IF n % 10 = 0 THEN Decimal(n \div 10, e + 1)
    ELSE [nan |-> FALSE, n |-> n, e |-> e]

\* Variant: the text is converted as the palette generator converts a
\* label, with parseInt.
StringToNumber_parseInt(s) ==
    IF parseInt(s).nan THEN NaN ELSE Decimal(parseInt(s).n, 0)

\* Number(searchText) of a trimmed text that is not empty: the value of a
\* decimal literal (an optional sign, digits with an optional "." and
\* fraction, an optional exponent) and NaN for any other text.  The
\* characters of the search texts cannot spell "Infinity" or a literal
\* with a radix prefix.
StringToNumber(s) ==
    LET signed == s # <<>> /\ s[1] \in {"+", "-"}
        i0 == IF signed THEN 2 ELSE 1
        i1 == DigitsEnd(s, i0)
        hasDot == i1 <= Len(s) /\ s[i1] = "."
        f0 == IF hasDot THEN i1 + 1 ELSE i1
        f1 == DigitsEnd(s, f0)
        hasExp == f1 <= Len(s) /\ s[f1] \in {"e", "E"}
        expSigned == hasExp /\ f1 + 1 <= Len(s) /\ s[f1 + 1] \in {"+", "-"}
        x0 == IF expSigned THEN f1 + 2 ELSE f1 + 1
        x1 == DigitsEnd(s, x0)
        end == IF hasExp THEN x1 ELSE f1
        mantissa == DigitsValue(s, f0, DigitsValue(s, i0, 0))
        exponent ==
            (IF hasExp
             THEN (IF expSigned /\ s[f1 + 1] = "-" THEN -1 ELSE 1)
                      * DigitsValue(s, x0, 0)
             ELSE 0) - (f1 - f0)
        wellFormed == /\ (i1 - i0) + (f1 - f0) > 0
                      /\ hasExp => x1 > x0
                      /\ end = Len(s) + 1
    IN  IF wellFormed
        THEN Decimal((IF signed /\ s[1] = "-" THEN -1 ELSE 1) * mantissa,
                     exponent)
        ELSE NaN

\* BciAvUtils: the gloss the client searches and the compositions that
\* have been built from its symbols.
SearchGloss == << [id |-> 7, description |-> <<"c">>],
                  [id |-> 5, description |-> <<"e", " ", "c">>] >>
Compositions == << <<7>>, <<5, Slash, 7>> >>

\* BciAvUtils.findBciAvId(searchText): the entries whose description is the
\* text or contains it as a whole word; none is an empty result.
BciAvUtils_findBciAvId(searchText) ==
    LET found == SelectSeq(SearchGloss,
                     LAMBDA gloss : \/ gloss.description = searchText
                                    \/ wordMatch(searchText, gloss.description))
    IN  [k \in 1..Len(found) |->
            [bciAvId |-> found[k].id, label |-> found[k].description]]

\* BciAvUtils.findCompositionsUsingId(numberId): the compositions that use
\* the id.
findCompositionsUsingId(numberId) ==
    SelectSeq(Compositions,
              LAMBDA composition :
                  /\ numberId.e = 0
                  /\ numberId.n >= 0
                  /\ \E k \in 1..Len(composition) : composition[k] = numberId.n)

\* Nothing submitted yet: GlossSearchPalette has not been rendered.
NoSearch == [rendered |-> FALSE, field |-> <<>>, searchTerm |-> <<>>,
             noSearchTerm |-> FALSE, matches |-> <<>>, lookup |-> "none",
             numberId |-> NaN]

\* searchGloss(event): the form is submitted with fieldText in the field.
\* The record holds the props GlossSearchPalette is rendered with, and the
\* lookup that was called with its numeric argument.
searchGloss(fieldText) ==
    /\ \E searchText \in {trim(fieldText)} :
        \E numberId \in {StringToNumber(searchText)} :
           search' =
               IF Len(searchText) = 0
               THEN [rendered |-> TRUE, field |-> fieldText,
                     searchTerm |-> searchText, noSearchTerm |-> TRUE,
                     matches |-> <<>>, lookup |-> "none", numberId |-> NaN]
               ELSE IF numberId.nan
               THEN [rendered |-> TRUE, field |-> fieldText,
                     searchTerm |-> searchText, noSearchTerm |-> FALSE,
                     matches |-> BciAvUtils_findBciAvId(searchText),
                     lookup |-> "findBciAvId", numberId |-> numberId]
               ELSE [rendered |-> TRUE, field |-> fieldText,
                     searchTerm |-> searchText, noSearchTerm |-> FALSE,
                     matches |-> findCompositionsUsingId(numberId),
                     lookup |-> "findCompositionsUsingId",
                     numberId |-> numberId]
    /\ UNCHANGED docVars
    /\ UNCHANGED paletteVars

\* What can be typed in the search field.
SearchChars == {" ", "7", "c", "e", ".", "-"}
SearchTexts == UNION {[1..n -> SearchChars] : n \in 0..MaxSearchLen}

-----------------------------------------------------------------------------

Init ==
    /\ payloads = <<>>
    /\ caretPosition = -1
    /\ history = <<>>
    /\ bliss_gloss = Undefined
    /\ fetched = "never"
    /\ errors = <<>>
    /\ call = NoCall
    /\ earlier = NoResult
    /\ palette_labels = <<>>
    /\ start_row = 2
    /\ start_column = 1
    /\ search = NoSearch

PostModifier == \E props \in PostModifierCells : PostModifierClicked(props)
Insert == \E symbol \in InsertableSymbols : InsertSymbol(symbol)

Next ==
    \/ Insert
    \/ CaretBackward
    \/ CaretForward
    \/ PostModifier
    \/ RemoveIndicatorClicked
    \/ ClearClicked

Spec == Init /\ [][Next]_vars

Fetch == \E entries \in FetchableGlosses : FetchSucceeds(entries)

PaletteNext ==
    \/ Fetch
    \/ FetchFails
    \/ processPaletteLabels

\* The generator with its configuration drawn from the grids and offsets.
PaletteInit ==
    /\ payloads = <<>>
    /\ caretPosition = -1
    /\ history = <<>>
    /\ bliss_gloss = Undefined
    /\ fetched = "never"
    /\ errors = <<>>
    /\ call = NoCall
    /\ earlier = NoResult
    /\ search = NoSearch
    /\ palette_labels \in Grids
    /\ \E start \in Starts : start_row = start[1] /\ start_column = start[2]

PaletteSpec == PaletteInit /\ [][PaletteNext]_vars

\* The encoding document edited through the buttons: the remove-indicator
\* handler runs only when its button is enabled.
InsertResolved == \E symbol \in ResolvedSymbols : InsertSymbol(symbol)

ButtonsNext ==
    \/ InsertResolved
    \/ CaretBackward
    \/ CaretForward
    \/ PostModifier
    \/ RemoveIndicatorButton
    \/ ClearClicked

ButtonsSpec == Init /\ [][ButtonsNext]_vars

\* The search form on its own.
SearchNext == \E fieldText \in SearchTexts : searchGloss(fieldText)

SearchSpec == Init /\ [][SearchNext]_vars

-----------------------------------------------------------------------------
(* Reading the history *)

Ran(name) == Len(history) >= 1 /\ history[1].op = name
Completed(name) == Ran(name) /\ ~history[1].thrown

\* The document as the last operation found it, and its caret symbol.
Before == history[1]
BeforeHasCaretSymbol ==
    Before.caretPosition >= 0 /\ Before.caretPosition < Len(Before.payloads)
BeforeSymbol == Before.payloads[Before.caretPosition + 1]

\* The symbol now in the slot the last operation worked on.
AfterSymbol == payloads[Before.caretPosition + 1]

\* The token sequence of a bciAvId (a scalar id is a one-element sequence).
Tokens(bciAvId) == IF bciAvId.type = "number" THEN <<bciAvId.v>> ELSE bciAvId.v

\* 1-based positions of the indicators of a token sequence.
IndicatorsAt(t) == {k \in 1..Len(t) : t[k] \in INDICATOR_IDS}
FirstIndicator(t) == CHOOSE k \in IndicatorsAt(t) : \A j \in IndicatorsAt(t) : k <= j

RemoveRanOnIndicator ==
    /\ Ran("removeIndicator")
    /\ BeforeHasCaretSymbol
    /\ IndicatorsAt(Tokens(BeforeSymbol.bciAvId)) # {}

RemoveRanWithoutIndicator ==
    /\ Ran("removeIndicator")
    /\ BeforeHasCaretSymbol
    /\ IndicatorsAt(Tokens(BeforeSymbol.bciAvId)) = {}

-----------------------------------------------------------------------------
(* Claims *)

C2_NoIndicatorNoOp ==
    RemoveRanWithoutIndicator =>
        /\ Len(payloads) = Len(Before.payloads)
        /\ AfterSymbol.bciAvId = BeforeSymbol.bciAvId
        /\ AfterSymbol.modifierInfo = BeforeSymbol.modifierInfo

\* C3: of two removeIndicator calls in a row on a symbol with exactly one
\* indicator, the first changes the tokens and the second leaves them as
\* the first left them.  (The step is the second call.)
C3_SecondRemoveIsNoOp ==
    [][ ( /\ Ran("removeIndicator")
          /\ BeforeHasCaretSymbol
          /\ Cardinality(IndicatorsAt(Tokens(BeforeSymbol.bciAvId))) = 1
          /\ history'[1].op = "removeIndicator" ) =>
            /\ Tokens(AfterSymbol.bciAvId) # Tokens(BeforeSymbol.bciAvId)
            /\ Tokens(AfterSymbol.bciAvId)' = Tokens(AfterSymbol.bciAvId) ]_vars

\* C4: appendModifier makes the tokens the previous tokens, then "/", then
\* the modifier's tokens.
C4_AppendModifierTokens ==
    Completed("appendModifier") =>
        /\ AfterSymbol.bciAvId.type = "object"
        /\ AfterSymbol.bciAvId.v
               = Tokens(BeforeSymbol.bciAvId) \o <<Slash>>
                   \o Tokens(Before.props.bciAvId)

\* A modifier with a scalar id appended to a symbol with a scalar id.
C4_Witness ==
    /\ Completed("appendModifier")
    /\ BeforeSymbol.bciAvId.type = "number"
    /\ Before.props.bciAvId.type = "number"
    /\ Len(AfterSymbol.bciAvId.v) = 3

\* C5: appendModifier with gloss G on a symbol labelled L gives the label
\* "G L" and one more modifierInfo record, put last, with isPrepended false
\* and the modifier's tokens and gloss; the earlier records are unchanged.
C5_AppendModifierLabelAndInfo ==
    Completed("appendModifier") =>
        LET old == BeforeSymbol.modifierInfo
            new == AfterSymbol.modifierInfo
        IN  /\ AfterSymbol.label
                   = Before.props.label \o <<" ">> \o BeforeSymbol.label
            /\ Len(new) = Len(old) + 1
            /\ SubSeq(new, 1, Len(old)) = old
            /\ new[Len(new)].isPrepended = FALSE
            /\ new[Len(new)].modifierId = Tokens(Before.props.bciAvId)
            /\ new[Len(new)].modifierGloss = Before.props.label

\* A second modifier, different from the first, appended to a symbol.
C5_Witness ==
    /\ Completed("appendModifier")
    /\ Len(BeforeSymbol.modifierInfo) = 1
    /\ BeforeSymbol.modifierInfo[1].modifierGloss # Before.props.label
    /\ Len(AfterSymbol.modifierInfo) = 2

\* C6: with no symbol at the caret, appendModifier and removeIndicator
\* complete without an error and leave payloads and caretPosition as
\* they were.
C6_NoCaretSymbolNoOp ==
    ( /\ Ran("appendModifier") \/ Ran("removeIndicator")
      /\ ~BeforeHasCaretSymbol ) =>
        /\ ~Before.thrown
        /\ payloads = Before.payloads
        /\ caretPosition = Before.caretPosition

\* C7: a completed appendModifier or removeIndicator leaves the caret, the
\* number of payloads and every payload other than the caret's unchanged.
C7_OnlyCaretPayloadChanges ==
    (Completed("appendModifier") \/ Completed("removeIndicator")) =>
        /\ caretPosition = Before.caretPosition
        /\ Len(payloads) = Len(Before.payloads)
        /\ \A k \in 1..Len(payloads) :
               k # caretPosition + 1 => payloads[k] = Before.payloads[k]

\* An edit of the first of two symbols.
C7_Witness ==
    /\ Completed("appendModifier") \/ Completed("removeIndicator")
    /\ Len(payloads) = 2
    /\ caretPosition = 0
    /\ payloads[1] # Before.payloads[1]

\* C8: clear leaves the document empty with the caret at -1, whatever the
\* document was.
C8_ClearResets ==
    Ran("clear") => payloads = <<>> /\ caretPosition = -1

\* A clear of a document with an edited symbol and the caret on a symbol.
C8_Witness ==
    /\ Ran("clear")
    /\ Len(Before.payloads) = 2
    /\ Before.caretPosition = 1
    /\ \E k \in 1..2 : Len(Before.payloads[k].modifierInfo) > 0
    /\ payloads = <<>>

-----------------------------------------------------------------------------
(* Reading a processPaletteLabels call *)

\* The labels of the grid in row-major order, and those that are not blank.
RECURSIVE Flatten(_)
Flatten(grid) == IF grid = <<>> THEN <<>> ELSE Head(grid) \o Flatten(Tail(grid))
NonBlankLabels ==
    SelectSeq(Flatten(palette_labels), LAMBDA label : label # BLANK_CELL_LABEL)

ReturnedCells == call.paletteJson.cells

\* Whether the resolution of a label failed in the last call, and the
\* message of the error it raised.
ResolutionOf(label) ==
    tryResolve([options |-> [label |-> label, bciAvId |-> Num(0)]], label,
               call.bliss_gloss)
FailedLabels == SelectSeq(NonBlankLabels, LAMBDA label : ResolutionOf(label).threw)

IsNotFoundCell(cell) == cell.options.bciAvId = NotFoundBciAvId

\* C9: processPaletteLabels never throws and, when it returns, has visited
\* every label of every row and has emitted a cell for each non-blank one,
\* whatever the gloss is (never loaded, empty or loaded).
C9_NeverThrowsNeverStopsEarly ==
    /\ ~call.thrown
    /\ call.returned =>
           /\ call.visited = CellCount(palette_labels)
           /\ Len(ReturnedCells) = Len(NonBlankLabels)
           /\ Len(errors) = Len(FailedLabels)

\* A call with the gloss never loaded, on a full grid of two rows with a
\* failure in each.
C9_Witness ==
    /\ call.returned
    /\ ~call.bliss_gloss.defined
    /\ Len(palette_labels) = 2
    /\ CellCount(palette_labels) = MaxCells
    /\ \A r \in 1..2 : \E c \in 1..Len(palette_labels[r]) :
           palette_labels[r][c] # BLANK_CELL_LABEL
    /\ Len(errors) >= 2

\* C10: one cell per non-blank label and none for BLANK, in row-major
\* order; the cell of a label whose resolution failed, and only that, has
\* the label suffixed " NOT FOUND" and the not-found bciAvId; errors holds
\* the message of each failure, one per failed cell, in row-major order.
C10_NotFoundCellsAndErrors ==
    call.returned =>
        /\ Len(ReturnedCells) = Len(NonBlankLabels)
        /\ \A k \in 1..Len(ReturnedCells) :
               LET label == NonBlankLabels[k]
                   cell == ReturnedCells[k].cell
               IN  /\ ReturnedCells[k].key = label
                   /\ IF ResolutionOf(label).threw
                      THEN /\ cell.options.label = label \o NOT_FOUND_SUFFIX
                           /\ cell.options.bciAvId = NotFoundBciAvId
                      ELSE ~IsNotFoundCell(cell)
        /\ Len(errors) = Len(SelectSeq(ReturnedCells,
                                       LAMBDA entry : IsNotFoundCell(entry.cell)))
        /\ errors = [k \in 1..Len(FailedLabels) |->
                        ResolutionOf(FailedLabels[k]).message]

\* A call on a loaded gloss with a blank first and two different failures
\* in different rows.
C10_Witness ==
    /\ call.returned
    /\ call.bliss_gloss.defined
    /\ Len(palette_labels) = 2
    /\ palette_labels[1][1] = BLANK_CELL_LABEL
    /\ Len(ReturnedCells) = 2
    /\ Len(errors) = 2
    /\ errors[1] # errors[2]

\* The cells of the last call that are marked as not found, among the
\* first k; the error of the k-th cell, a marked one, is at that position.
NotFoundUpTo(k) ==
    Len(SelectSeq(SubSeq(ReturnedCells, 1, k),
                  LAMBDA entry : IsNotFoundCell(entry.cell)))
ErrorOfCell(k) == errors[NotFoundUpTo(k)]

\* The entries of the gloss of the last call whose id is the integer n,
\* stored as a number or as a string.
EntriesWithId(n) ==
    SelectSeq(call.bliss_gloss.entries,
              LAMBDA entry : parseIntId(entry.id) = Number(n))

\* C11: the cell of a label that parses as an integer n has the description
\* of the entry with id n (stored as a number or as a string) as its label,
\* n as its bciAvId and no error; it is a not-found cell, with the not-found
\* error of the id lookup, only when the gloss has no entry with id n.
C11_NumericLabelResolvedById ==
    (call.returned /\ call.bliss_gloss.defined) =>
        \A k \in 1..Len(ReturnedCells) :
            LET label == NonBlankLabels[k]
                parsed == parseInt(label)
                cell == ReturnedCells[k].cell
            IN  ~parsed.nan =>
                    IF Len(EntriesWithId(parsed.n)) > 0
                    THEN /\ cell.options.label
                                = EntriesWithId(parsed.n)[1].description
                         /\ cell.options.bciAvId = Num(parsed.n)
                    ELSE /\ IsNotFoundCell(cell)
                         /\ ErrorOfCell(k)
                                = <<"BciAvId not found for BCI AV ID: ">> \o label

\* Whether the description contains the label as a whole word: the label
\* stands in it with no word character right before it or right after it.
ContainsWholeWord(label, description) ==
    \E before \in 0..(Len(description) - Len(label)) :
        LET after == before + Len(label) + 1
        IN  /\ SubSeq(description, before + 1, before + Len(label)) = label
            /\ before = 0 \/ description[before] \notin WordChars
            /\ after > Len(description) \/ description[after] \notin WordChars

\* The entries of the gloss of the last call whose description is the label
\* or contains it as a whole word, in the order of the gloss, and the
\* matches they stand for.
MatchingEntries(label) ==
    SelectSeq(call.bliss_gloss.entries,
              LAMBDA entry : \/ entry.description = label
                             \/ ContainsWholeWord(label, entry.description))
MatchesOf(label) ==
    [j \in 1..Len(MatchingEntries(label)) |->
        [bciAvId |-> parseIntId(MatchingEntries(label)[j].id),
         label |-> MatchingEntries(label)[j].description]]

\* The labels of the last call that are not numbers, and those of them
\* that resolve by gloss text: a key of the special encodings or a label
\* with a matching entry.
IsTextLabel(label) == parseInt(label).nan
ResolvingTextLabels ==
    SelectSeq(NonBlankLabels,
              LAMBDA label : /\ IsTextLabel(label)
                             /\ \/ label \in specialEncodingsKeys
                                \/ Len(MatchingEntries(label)) > 0)

\* C12: the cell of a label that is not a number and resolves by gloss text
\* has the id of the first matching entry, in the order of the gloss, as its
\* bciAvId; the returned matches hold one entry for each such cell, keyed by
\* the label, with all its matches, and none for any other label.
C12_FirstMatchAndAllMatches ==
    (call.returned /\ call.bliss_gloss.defined) =>
        /\ \A k \in 1..Len(ReturnedCells) :
               LET label == NonBlankLabels[k]
               IN  (IsTextLabel(label) /\ Len(MatchingEntries(label)) > 0) =>
                       ReturnedCells[k].cell.options.bciAvId
                           = Num(MatchesOf(label)[1].bciAvId.n)
        /\ call.matches = [j \in 1..Len(ResolvingTextLabels) |->
                              [label |-> ResolvingTextLabels[j],
                               matches |-> MatchesOf(ResolvingTextLabels[j])]]

\* The grid positions of the labels, in row-major order from a row on, and
\* those of the labels that are not blank.
RECURSIVE GridPositionsFrom(_)
GridPositionsFrom(rowIndex) ==
    IF rowIndex >= Len(palette_labels) THEN <<>>
    ELSE [c \in 1..Len(palette_labels[rowIndex + 1]) |->
             [rowIndex |-> rowIndex, colIndex |-> c - 1,
              label |-> palette_labels[rowIndex + 1][c]]]
         \o GridPositionsFrom(rowIndex + 1)
NonBlankPositions ==
    SelectSeq(GridPositionsFrom(0), LAMBDA p : p.label # BLANK_CELL_LABEL)

\* C13: the cell of the label at row index r and column index c has
\* rowStart = start_row + r, columnStart = start_column + c and both spans 1,
\* resolved or not; a BLANK label has no cell and keeps its grid position,
\* so the cells after it in the row are not shifted.
C13_CellPositions ==
    call.returned =>
        /\ Len(ReturnedCells) = Len(NonBlankPositions)
        /\ \A k \in 1..Len(ReturnedCells) :
               LET at == NonBlankPositions[k]
                   options == ReturnedCells[k].cell.options
               IN  /\ ReturnedCells[k].key = at.label
                   /\ options.rowStart = start_row + at.rowIndex
                   /\ options.columnStart = start_column + at.colIndex
                   /\ options.rowSpan = 1
                   /\ options.columnSpan = 1

\* A call whose second row starts with a blank: the cell after the blank is
\* in the second column; one cell of the call resolved and one did not.
C13_Witness ==
    /\ call.returned
    /\ Len(palette_labels) = 2
    /\ Len(palette_labels[2]) = 2
    /\ palette_labels[2][1] = BLANK_CELL_LABEL
    /\ Len(ReturnedCells) = 2
    /\ ReturnedCells[2].cell.options.rowStart = start_row + 1
    /\ ReturnedCells[2].cell.options.columnStart = start_column + 1
    /\ ~IsNotFoundCell(ReturnedCells[1].cell)
    /\ IsNotFoundCell(ReturnedCells[2].cell)

\* C14: as long as no load of the gloss has succeeded (the load failed, or
\* has not completed), there is no gloss, and every cell of a
\* processPaletteLabels call is a not-found cell with its error recorded:
\* no label resolves, by id or by gloss text.
C14_NoLoadNoResolution ==
    fetched # "ok" =>
        /\ ~bliss_gloss.defined
        /\ call.returned =>
               /\ Len(ReturnedCells) = Len(NonBlankLabels)
               /\ \A k \in 1..Len(ReturnedCells) :
                      /\ IsNotFoundCell(ReturnedCells[k].cell)
                      /\ ReturnedCells[k].cell.options.label
                             = NonBlankLabels[k] \o NOT_FOUND_SUFFIX
               /\ Len(errors) = Len(ReturnedCells)
               /\ call.matches = <<>>

\* A call after a failed load, on a grid with a number and two words, one
\* of them a name that every object inherits.
C14_Witness ==
    /\ fetched = "failed"
    /\ call.returned
    /\ Len(ReturnedCells) = 3
    /\ \E i, j, k \in 1..3 : /\ NonBlankLabels[i] = Str_7
                             /\ NonBlankLabels[j] = Str_cat
                             /\ NonBlankLabels[k] = Str_constructor
    /\ Len(errors) = 3

\* The labels of the last call that the loop over the gloss looks up: not
\* numbers, and not passed over by the test of the special encodings.
LoopLabels ==
    SelectSeq(NonBlankLabels,
              LAMBDA label : IsTextLabel(label) /\ ~InSpecialEncodings(label))

\* The matches the last call returned for a label, if it returned any.
ReturnedMatches(label) ==
    SelectSeq(call.matches, LAMBDA labelMatch : labelMatch.label = label)

\* C15: the loop over the gloss returns an entry iff its description is the
\* label or contains the label as a whole word ("cat" is in "the cat sat",
\* not in "category"), and returns all such entries in the order of the
\* gloss; it returns nothing for a label with no such entry.
C15_WholeWordMatches ==
    (call.returned /\ call.bliss_gloss.defined) =>
        \A k \in 1..Len(LoopLabels) :
            LET label == LoopLabels[k]
            IN  IF Len(MatchingEntries(label)) = 0
                THEN ReturnedMatches(label) = <<>>
                ELSE /\ ReturnedMatches(label) # <<>>
                     /\ \A j \in 1..Len(ReturnedMatches(label)) :
                            ReturnedMatches(label)[j].matches = MatchesOf(label)

\* C16: for a label that is, verbatim, the description of an entry of the
\* gloss, the lookup by label returns matches, and exactly one of them has
\* the label as its description.
C16_VerbatimLabelMatchedOnce ==
    (call.returned /\ call.bliss_gloss.defined) =>
        \A k \in 1..Len(NonBlankLabels) :
            LET label == NonBlankLabels[k]
                verbatim == \E e \in 1..Len(call.bliss_gloss.entries) :
                                call.bliss_gloss.entries[e].description = label
            IN  (IsTextLabel(label) /\ verbatim) =>
                    /\ ReturnedMatches(label) # <<>>
                    /\ \A j \in 1..Len(ReturnedMatches(label)) :
                           Len(SelectSeq(ReturnedMatches(label)[j].matches,
                                         LAMBDA match : match.label = label)) = 1

\* C17: the lookup by label of a label that is no key of the special
\* encodings and has no matching entry in the gloss fails with the
\* not-found error: the cell is a not-found cell, its error is the
\* not-found message of the label, and no matches are returned for it.
C17_AbsentLabelNotFound ==
    (call.returned /\ call.bliss_gloss.defined) =>
        \A k \in 1..Len(ReturnedCells) :
            LET label == NonBlankLabels[k]
            IN  ( /\ IsTextLabel(label)
                  /\ label \notin specialEncodingsKeys
                  /\ Len(MatchingEntries(label)) = 0 ) =>
                    /\ IsNotFoundCell(ReturnedCells[k].cell)
                    /\ ErrorOfCell(k) = <<"BciAvId not found for label: ">> \o label
                    /\ ReturnedMatches(label) = <<>>

-----------------------------------------------------------------------------
(* Reading a submission of the search form *)

\* The text of the field without the spaces at its two ends.
TermOf(field) ==
    LET inked == {k \in 1..Len(field) : field[k] # " "}
    IN  IF inked = {} THEN <<>>
        ELSE SubSeq(field, CHOOSE k \in inked : \A j \in inked : k <= j,
                           CHOOSE k \in inked : \A j \in inked : k >= j)

\* Whether a text spells a number and nothing else: an optional sign, then
\* digits with an optional "." and fraction (a digit on one side at
\* least), then an optional exponent.
AllDigits(s) == \A k \in 1..Len(s) : IsDigit(s[k])
SpellsMantissa(s) ==
    \/ s # <<>> /\ AllDigits(s)
    \/ \E dot \in 1..Len(s) :
           /\ s[dot] = "."
           /\ AllDigits(SubSeq(s, 1, dot - 1))
           /\ AllDigits(SubSeq(s, dot + 1, Len(s)))
           /\ Len(s) > 1
SpellsExponent(s) ==
    \/ s = <<>>
    \/ /\ Len(s) >= 2
       /\ s[1] \in {"e", "E"}
       /\ \/ AllDigits(Tail(s))
          \/ /\ Len(s) >= 3
             /\ s[2] \in {"+", "-"}
             /\ AllDigits(SubSeq(s, 3, Len(s)))
SpellsNumber(s) ==
    \E from \in 1..2 : \E cut \in from..Len(s) :
        /\ from = 2 => s[1] \in {"+", "-"}
        /\ SpellsMantissa(SubSeq(s, from, cut))
        /\ SpellsExponent(SubSeq(s, cut + 1, Len(s)))

-----------------------------------------------------------------------------
(* Claims on the document edited through the buttons *)

\* C19: the token sequence of every symbol of the document is non-empty, in
\* every state reached from the empty document by insertions of symbols
\* with non-empty tokens, appendModifier, clear, and removeIndicator when
\* its button is enabled.
C19_TokensNeverEmpty ==
    \A k \in 1..Len(payloads) : Len(Tokens(payloads[k].bciAvId)) > 0

\* C20: in every state of the document the enablement of the two buttons
\* is decided and follows the document: the remove-indicator button is
\* enabled iff the document is not empty and the tokens of the caret symbol
\* hold an indicator, and the position that decides it is the position of
\* the first indicator, the one the removal uses; the post-modifier button
\* is enabled iff payloads is not empty; after a clear both are disabled.
C20_EnablementFollowsDocument ==
    LET hasIndicator ==
            /\ Len(payloads) # 0
            /\ HasCaretSymbol
            /\ IndicatorsAt(Tokens(CaretSymbol.bciAvId)) # {}
    IN  /\ ~caretSymbolIndicatorPositionThrows
        /\ removeIndicatorEnabled <=> hasIndicator
        /\ removeIndicatorEnabled =>
               caretSymbolIndicatorPosition + 1
                   = FirstIndicator(Tokens(CaretSymbol.bciAvId))
        /\ ~postModifierDisabled <=> Len(payloads) # 0
        /\ Ran("clear") => ~removeIndicatorEnabled /\ postModifierDisabled

\* What the last call pushed, worked out from its labels and its gloss.
MessagesOfLastCall ==
    [k \in 1..Len(FailedLabels) |-> ResolutionOf(FailedLabels[k]).message]

\* C21: the results of separate calls are independent: the errors of the
\* result an earlier call returned still hold exactly the messages of that
\* call after a later call has run, and the errors of the later call's
\* result hold only the later call's messages.
C21_BatchRunsIndependent ==
    /\ earlier.returned => ContentsOf(earlier.errors) = earlier.pushed
    /\ call.returned => ContentsOf(ErrorsArray) = MessagesOfLastCall

====
